---- MODULE Spec2Model ----
(***************************************************************************)
(* Model of the Type-Gen-01 generative typography editor.                  *)
(*                                                                         *)
(*   App            owns `settings` and merges patches into it             *)
(*   ControlPanel   sliders / buttons call updateSettings with a one-field *)
(*                  patch; handleAiGenerate applies the patch returned by  *)
(*                  generateStyleFromPrompt                                *)
(*   Artboard       derives the metaball anchors, runs the animation       *)
(*                  clock and builds the SVG filter graph                  *)
(*                                                                         *)
(* Numbers are fixed point.  morphRadius, blurStdDev and metaballSpeed are *)
(* held in tenths (their sliders step by 0.1), distortionX / distortionY   *)
(* in thousandths (slider step 0.001), every other setting in units.  The  *)
(* clock `time` is held in thousandths, so that the increment              *)
(* 0.01 * metaballSpeed is exactly metaballSpeed-in-tenths.  Anchor        *)
(* coordinates, radii, speeds and the sine / cosine values are held in     *)
(* thousandths, angles in milliradians.                                    *)
(***************************************************************************)
EXTENDS Integers, Sequences, FiniteSets, TLC

VARIABLES
    settings,      \* App.tsx: the TypeSettings object held by useState
    time,          \* Artboard.tsx: the animation clock (thousandths)
    anchors,       \* Artboard.tsx: the memoised list of base metaballs
    filter,        \* Artboard.tsx: the filter primitives last rendered
    frameId,       \* Artboard.tsx: the animation frame requested by the
                   \*   live effect, with the metaballSpeed its closure holds
    effectStale,   \* TRUE while a committed change of the effect's
                   \*   dependencies has not yet had its cleanup / setup run
    isGenerating,  \* ControlPanel.tsx: a style request is in flight
    aiOutcome,     \* how the last style request ended ("none" before any)
    isExporting,   \* Artboard.tsx: a PNG export is in flight
    rendered       \* the Artboard has rendered at least once

vars == <<settings, time, anchors, filter, frameId, effectStale,
          isGenerating, aiOutcome, isExporting, rendered>>

----------------------------------------------------------------------------
(* Bounds of the model.                                                    *)

MaxTime == 4           \* the clock is explored up to this value
MaxPatchFields == 1    \* keys in one style-suggestion response
MaxMetaballs == 5      \* largest numMetaballs the anchors are derived for
MaxSeed == 2           \* largest noiseSeed the anchors are derived for
MaxDrawn == 1          \* loop iterations explored with free draws

----------------------------------------------------------------------------
(* types: TypeSettings, TextureMode, DEFAULT_SETTINGS                      *)

TextureModes == {"solid", "chrome", "glass", "neon"}

MorphOperators == {"dilate", "erode"}

NoiseTypes == {"turbulence", "fractalNoise"}

\* The fields of TypeSettings the Artboard's filter, anchors and clock read,
\* plus `text`.  The remaining content / transform / style fields are only
\* handed to the <text> and <circle> elements.
SettingsFields ==
    {"text", "morphRadius", "morphOperator", "distortionX", "distortionY",
     "distortionStrength", "noiseType", "noiseSeed", "blurStdDev", "contrast",
     "textureMode", "numMetaballs", "metaballSpread", "metaballSpeed"}

DEFAULT_SETTINGS ==
    [text               |-> "FLUX\nTYPE",
     morphRadius        |-> 0,
     morphOperator      |-> "dilate",
     distortionX        |-> 20,
     distortionY        |-> 40,
     distortionStrength |-> 30,
     noiseType          |-> "turbulence",
     noiseSeed          |-> 1,
     blurStdDev         |-> 0,
     contrast           |-> 1,
     textureMode        |-> "solid",
     numMetaballs       |-> 5,
     metaballSpread     |-> 40,
     metaballSpeed      |-> 2]

----------------------------------------------------------------------------
(* Artboard: renderFilterContent.  A filter primitive is a record          *)
(*   op      the element name                                              *)
(*   ins     the buffers it reads, in attribute order (in, in2 or the      *)
(*           feMergeNode children)                                         *)
(*   result  its result attribute, "" when the element has none            *)
(*   attrs   its remaining attributes                                      *)

RawShape == "SourceGraphic"

Stage(op, ins, result, attrs) ==
    [op |-> op, ins |-> ins, result |-> result, attrs |-> attrs]

\* Variant: the morphology primitive guarded by `>= 0` instead of `> 0`.
MorphologyStageAtZero(s) ==
    IF s.morphRadius >= 0
    THEN << Stage("feMorphology", <<RawShape>>, "morphed",
                  [operator |-> s.morphOperator, radius |-> s.morphRadius]) >>
    ELSE << >>

\* {settings.morphRadius > 0 && <feMorphology ... result="morphed" />}
\* The element has no `in`: as the first primitive it reads SourceGraphic.
MorphologyStage(s) ==
    IF s.morphRadius > 0
    THEN << Stage("feMorphology", <<RawShape>>, "morphed",
                  [operator |-> s.morphOperator, radius |-> s.morphRadius]) >>
    ELSE << >>

TurbulenceStage(s) ==
    Stage("feTurbulence", << >>, "noise",
          [type |-> s.noiseType,
           baseFrequency |-> <<s.distortionX, s.distortionY>>,
           numOctaves |-> 2, seed |-> s.noiseSeed])

\* Variant: the displacement reads "morphed" whether or not it was produced.
DisplacementStageAlwaysMorphed(s) ==
    Stage("feDisplacementMap", <<"morphed", "noise">>, "distorted",
          [scale |-> s.distortionStrength,
           xChannelSelector |-> "R", yChannelSelector |-> "G"])

DisplacementStage(s) ==
    Stage("feDisplacementMap",
          << IF s.morphRadius > 0 THEN "morphed" ELSE RawShape, "noise" >>,
          "distorted",
          [scale |-> s.distortionStrength,
           xChannelSelector |-> "R", yChannelSelector |-> "G"])

BlurStage(s) ==
    Stage("feGaussianBlur", <<"distorted">>, "blurred",
          [stdDeviation |-> s.blurStdDev])

\* alphaMultiplier = contrast; alphaOffset = -(contrast * 0.5), in tenths.
ContrastStage(s) ==
    Stage("feColorMatrix", <<"blurred">>, "gooShape",
          [type |-> "matrix",
           alphaMultiplier |-> s.contrast,
           alphaOffset |-> 0 - (s.contrast * 5)])

\* Variant: the solid merge reads the blurred buffer, skipping the remap.
SolidBranchReadsBlurred ==
    << Stage("feMerge", <<"blurred">>, "", [nodes |-> 1]) >>

SolidBranch ==
    << Stage("feMerge", <<"gooShape">>, "", [nodes |-> 1]) >>

ChromeBranch ==
    << Stage("feGaussianBlur", <<"gooShape">>, "bumpMap",
             [stdDeviation |-> 20]),
       Stage("feSpecularLighting", <<"bumpMap">>, "specular",
             [surfaceScale |-> 5, specularConstant |-> 12,
              specularExponent |-> 30]),
       Stage("feComposite", <<"specular", "gooShape">>, "specularMasked",
             [operator |-> "in"]),
       Stage("feComposite", <<"specularMasked", "gooShape">>, "",
             [operator |-> "arithmetic", k |-> <<0, 1, 1, 0>>]) >>

GlassBranch ==
    << Stage("feGaussianBlur", <<"gooShape">>, "glassBump",
             [stdDeviation |-> 30]),
       Stage("feSpecularLighting", <<"glassBump">>, "glassSpecular",
             [surfaceScale |-> 5, specularConstant |-> 15,
              specularExponent |-> 40]),
       Stage("feColorMatrix", <<"gooShape">>, "transparentBase",
             [type |-> "matrix", alphaMultiplier |-> 4, alphaOffset |-> 0]),
       Stage("feComposite", <<"glassSpecular", "gooShape">>, "glassShine",
             [operator |-> "in"]),
       Stage("feComposite", <<"glassShine", "transparentBase">>, "",
             [operator |-> "over"]) >>

\* Variant: the neon layers merged front to back.
NeonBranchFrontToBack ==
    << Stage("feGaussianBlur", <<"gooShape">>, "glow1", [stdDeviation |-> 20]),
       Stage("feGaussianBlur", <<"gooShape">>, "glow2", [stdDeviation |-> 60]),
       Stage("feGaussianBlur", <<"gooShape">>, "glow3", [stdDeviation |-> 120]),
       Stage("feMerge",
             <<"gooShape", "gooShape", "glow1", "glow2", "glow3">>, "",
             [nodes |-> 5]) >>

NeonBranch ==
    << Stage("feGaussianBlur", <<"gooShape">>, "glow1", [stdDeviation |-> 20]),
       Stage("feGaussianBlur", <<"gooShape">>, "glow2", [stdDeviation |-> 60]),
       Stage("feGaussianBlur", <<"gooShape">>, "glow3", [stdDeviation |-> 120]),
       Stage("feMerge",
             <<"glow3", "glow2", "glow1", "gooShape", "gooShape">>, "",
             [nodes |-> 5]) >>

\* The four `settings.textureMode === '...' &&` blocks, in source order.
MaterialStages(s) ==
    (IF s.textureMode = "solid" THEN SolidBranch ELSE << >>) \o
    (IF s.textureMode = "chrome" THEN ChromeBranch ELSE << >>) \o
    (IF s.textureMode = "glass" THEN GlassBranch ELSE << >>) \o
    (IF s.textureMode = "neon" THEN NeonBranch ELSE << >>)

\* Variant: a zero blur is left out instead of emitted.
renderFilterContentSkipsZeroBlur(s) ==
    MorphologyStage(s) \o
    << TurbulenceStage(s), DisplacementStage(s) >> \o
    (IF s.blurStdDev = 0 THEN << >> ELSE << BlurStage(s) >>) \o
    << ContrastStage(s) >> \o
    MaterialStages(s)

\* Variant: the filter left empty once the clock has moved.
renderFilterContentByClock(s) ==
    IF time # 0 THEN << >>
    ELSE MorphologyStage(s) \o
         << TurbulenceStage(s), DisplacementStage(s), BlurStage(s),
            ContrastStage(s) >> \o
         MaterialStages(s)

renderFilterContent(s) ==
    MorphologyStage(s) \o
    << TurbulenceStage(s), DisplacementStage(s), BlurStage(s),
       ContrastStage(s) >> \o
    MaterialStages(s)

----------------------------------------------------------------------------
(* Artboard: pseudoRandom, the anchors and their animated positions        *)

\* floor(1000 * frac(sin(seed) * 10000)) for the seeds noiseSeed * k + i,
\* noiseSeed in 1..4, k in {100, 200, 300, 400}, i in 0..7.
SinFracTable ==
    100 :> 343 @@ 101 :> 257 @@ 102 :> 267 @@ 103 :> 886 @@ 104 :> 775 @@ 105 :> 647 @@
    106 :> 574 @@ 107 :> 817 @@ 200 :> 27 @@ 201 :> 97 @@ 202 :> 184 @@ 203 :> 97 @@
    204 :> 203 @@ 205 :> 24 @@ 206 :> 580 @@ 207 :> 949 @@ 300 :> 441 @@ 301 :> 359 @@
    302 :> 528 @@ 303 :> 325 @@ 304 :> 68 @@ 305 :> 960 @@ 306 :> 382 @@ 307 :> 646 @@
    400 :> 806 @@ 401 :> 246 @@ 402 :> 567 @@ 403 :> 739 @@ 404 :> 435 @@ 405 :> 457 @@
    406 :> 484 @@ 407 :> 773 @@ 600 :> 824 @@ 601 :> 226 @@ 602 :> 41 @@ 603 :> 775 @@
    604 :> 838 @@ 605 :> 207 @@ 606 :> 653 @@ 607 :> 642 @@ 800 :> 696 @@ 801 :> 275 @@
    802 :> 961 @@ 803 :> 369 @@ 804 :> 64 @@ 805 :> 57 @@ 806 :> 768 @@ 807 :> 519 @@
    900 :> 32 @@ 901 :> 600 @@ 902 :> 52 @@ 903 :> 309 @@ 904 :> 565 @@ 905 :> 134 @@
    906 :> 507 @@ 907 :> 693 @@ 1200 :> 213 @@ 1201 :> 885 @@ 1202 :> 842 @@ 1203 :> 642 @@
    1204 :> 549 @@ 1205 :> 782 @@ 1206 :> 128 @@ 1207 :> 681 @@ 1600 :> 752 @@ 1601 :> 909 @@
    1602 :> 368 @@ 1603 :> 654 @@ 1604 :> 584 @@ 1605 :> 80 @@ 1606 :> 797 @@ 1607 :> 380

\* const x = Math.sin(seed) * 10000; return x - Math.floor(x);  (thousandths)
pseudoRandom(seed) == SinFracTable[seed]

PiMilli == 3142
TwoPiMilli == 6283

\* Math.sin on milliradians, in thousandths (Bhaskara's rational form
\* 16 x (pi - x) / (5 pi^2 - 4 x (pi - x)) on each half period).
HalfWave(x) ==
    LET p == x * (PiMilli - x)
    IN  (16 * p) \div ((5 * PiMilli * PiMilli - 4 * p) \div 1000)

Sin(a) ==
    LET m == a % TwoPiMilli
    IN  IF m < PiMilli THEN HalfWave(m)
        ELSE 0 - HalfWave(m - PiMilli)

Cos(a) == Sin(a + PiMilli \div 2)

\* Variant: the shift drawn from [0, spread) instead of centred on 0.
BallOfUncentred(i, spread, r1, r2, r3, r4) ==
    [id    |-> i,
     baseX |-> 50000 + r1 * spread,
     baseY |-> 50000 + r2 * spread,
     r     |-> 20000 + r3 * 60,
     phase |-> (r4 * TwoPiMilli) \div 1000,
     speed |-> 500 + r1 \div 2]

\* The ball pushed for index i, from the four draws r1..r4 (thousandths):
\* shiftX = (r1 - 0.5) * spread, shiftY = (r2 - 0.5) * spread,
\* r = 20 + r3 * 60, phase = r4 * 2 * PI, speed = 0.5 + r1 * 0.5.
BallOf(i, spread, r1, r2, r3, r4) ==
    [id    |-> i,
     baseX |-> 50000 + (r1 - 500) * spread,
     baseY |-> 50000 + (r2 - 500) * spread,
     r     |-> 20000 + r3 * 60,
     phase |-> (r4 * TwoPiMilli) \div 1000,
     speed |-> 500 + r1 \div 2]

\* Variant: the draws taken in reverse index order, last ball first.
MetaballDrawnBackwards(s, i) ==
    LET j == s.numMetaballs - 1 - i
    IN  BallOf(i, s.metaballSpread,
               pseudoRandom(s.noiseSeed * 100 + j),
               pseudoRandom(s.noiseSeed * 200 + j),
               pseudoRandom(s.noiseSeed * 300 + j),
               pseudoRandom(s.noiseSeed * 400 + j))

\* One iteration of the for loop of the anchors memo, for index i.
Metaball(s, i) ==
    LET seed1 == s.noiseSeed * 100 + i
        seed2 == s.noiseSeed * 200 + i
        seed3 == s.noiseSeed * 300 + i
        seed4 == s.noiseSeed * 400 + i
    IN  BallOf(i, s.metaballSpread, pseudoRandom(seed1), pseudoRandom(seed2),
               pseudoRandom(seed3), pseudoRandom(seed4))

\* The body of useMemo: balls is empty when numMetaballs === 0, else one
\* ball per i with 0 <= i < numMetaballs, pushed in increasing i.
deriveAnchors(s) ==
    IF s.numMetaballs = 0 THEN << >>
    ELSE [k \in 1..s.numMetaballs |-> Metaball(s, k - 1)]

\* Variant: noiseSeed left out of the dependency list.
AnchorDepsWithoutSeed(s) == <<s.numMetaballs, s.metaballSpread>>

\* The dependency list of the anchors memo.
AnchorDeps(s) == <<s.numMetaballs, s.metaballSpread, s.noiseSeed>>

JitterAmplitude == 5

\* Variant: the orbit scaled by the spread-sized 50 instead of 5.
AnimXWideOrbit(ball, t) ==
    ball.baseX + Sin((t * ball.speed) \div 1000 + ball.phase) * 50

\* ball.baseX + Math.sin(time * ball.speed + ball.phase) * 5, and the cosine
\* for Y: the centre of the circle drawn for `ball` at clock value t.
AnimX(ball, t) ==
    ball.baseX + Sin((t * ball.speed) \div 1000 + ball.phase) * JitterAmplitude

AnimY(ball, t) ==
    ball.baseY + Cos((t * ball.speed) \div 1000 + ball.phase) * JitterAmplitude

\* anchors.map(ball => <circle cx cy r />)
Circles(balls, t) ==
    [k \in 1..Len(balls) |->
        [key |-> balls[k].id, cx |-> AnimX(balls[k], t),
         cy |-> AnimY(balls[k], t), r |-> balls[k].r]]

----------------------------------------------------------------------------
(* App: updateSettings; services: generateStyleFromPrompt                  *)

\* generateSettingsSchema.properties, restricted to the fields modelled:
\* every field but text and noiseSeed.
SchemaFields == SettingsFields \ {"text", "noiseSeed"}

EmptyPatch == << >>

\* Variant: the patch spread over the initial settings, not over prev.
updateSettingsOntoDefaults(prev, newSettings) ==
    [k \in (DOMAIN prev) \cup (DOMAIN newSettings) |->
        IF k \in DOMAIN newSettings THEN newSettings[k]
        ELSE IF k \in DOMAIN DEFAULT_SETTINGS THEN DEFAULT_SETTINGS[k]
        ELSE prev[k]]

\* setSettings(prev => ({ ...prev, ...newSettings }))
updateSettings(prev, newSettings) ==
    [k \in (DOMAIN prev) \cup (DOMAIN newSettings) |->
        IF k \in DOMAIN newSettings THEN newSettings[k] ELSE prev[k]]

\* How a call of the style service can end: the API key is missing, the
\* request throws, response.text is empty, JSON.parse throws, or JSON.parse
\* returns a value (`parsed`).
Failures == {"noKey", "network", "empty", "malformed"}

\* Variant: a failed request falls back to the defaults.
generateStyleFromPromptDefaultsOnError(outcome, parsed) ==
    IF outcome \in Failures THEN DEFAULT_SETTINGS ELSE parsed

generateStyleFromPrompt(outcome, parsed) ==
    CASE outcome = "noKey"     -> EmptyPatch
      [] outcome = "network"   -> EmptyPatch
      [] outcome = "empty"     -> EmptyPatch
      [] outcome = "malformed" -> EmptyPatch
      [] OTHER                 -> parsed

----------------------------------------------------------------------------
(* Inputs explored by the model                                            *)

\* Values the ControlPanel widgets hand to updateSettings, per field.
UiValues ==
    [text               |-> {"FLUX\nTYPE", "GOO"},
     morphRadius        |-> {0, 5},
     morphOperator      |-> MorphOperators,
     distortionX        |-> {20},
     distortionY        |-> {40},
     distortionStrength |-> {0, 30},
     noiseType          |-> NoiseTypes,
     noiseSeed          |-> {1, 2},
     blurStdDev         |-> {0, 35},
     contrast           |-> {1, 20},
     textureMode        |-> TextureModes,
     numMetaballs       |-> {0, 1, 5},
     metaballSpread     |-> {0, 40},
     metaballSpeed      |-> {0, 2}]

\* The widgets exercised while the clock and the style service run; the
\* other widgets call the same updateSettings and feed only the filter.
UiFields ==
    {"text", "noiseSeed", "textureMode", "numMetaballs", "metaballSpread",
     "metaballSpeed"}

\* Values a parsed style response can carry, per key.  The response is
\* whatever JSON the service sent: a number may be out of its slider's
\* range (metaballSpeed -0.2), a string outside its union, and "0" stands
\* for a key that is no field of TypeSettings (a JSON string or array
\* spreads into index keys).
AiValues ==
    ("text"          :> {"GOO"}) @@
    ("noiseSeed"     :> {2}) @@
    ("textureMode"   :> {"neon", "plasma"}) @@
    ("numMetaballs"  :> {0, 1}) @@
    ("metaballSpeed" :> {0, 0 - 2}) @@
    ("0"             :> {"x"})

AiKeys == DOMAIN AiValues

RECURSIVE ObjectsOver(_)
\* Every object whose keys are exactly K, with the values above.
ObjectsOver(K) ==
    IF K = {} THEN {EmptyPatch}
    ELSE LET k == CHOOSE x \in K : TRUE
         IN  { (k :> v) @@ rest :
                 v \in AiValues[k], rest \in ObjectsOver(K \ {k}) }

\* The parsed responses: objects with at most MaxPatchFields keys.
AiPatches ==
    UNION { ObjectsOver(K) :
              K \in { K \in SUBSET AiKeys : Cardinality(K) <= MaxPatchFields } }

Prompts == {"", "  ", "liquid chrome"}

\* prompt.trim(), on the prompts above.
Trim(p) == IF p = "  " THEN "" ELSE p

\* Every TypeSettings the filter and the anchors are built from: the widget
\* values, and for the fields the style service can set the values no
\* widget produces (a negative radius, a texture mode outside the union).
ParameterSets ==
    [text               : {"FLUX\nTYPE"},
     morphRadius        : UiValues.morphRadius \cup {0 - 5},
     morphOperator      : UiValues.morphOperator,
     distortionX        : UiValues.distortionX,
     distortionY        : UiValues.distortionY,
     distortionStrength : UiValues.distortionStrength,
     noiseType          : UiValues.noiseType,
     noiseSeed          : UiValues.noiseSeed,
     blurStdDev         : UiValues.blurStdDev,
     contrast           : UiValues.contrast,
     textureMode        : UiValues.textureMode \cup AiValues["textureMode"],
     numMetaballs       : UiValues.numMetaballs,
     metaballSpread     : UiValues.metaballSpread,
     metaballSpeed      : UiValues.metaballSpeed]

----------------------------------------------------------------------------
(* Artboard: the animation effect                                          *)

NoFrame == [scheduled |-> FALSE, speed |-> 0]

\* The dependency list of the animation effect.
EffectDeps(s) == <<s.numMetaballs, s.metaballSpeed>>

\* Cleanup of the previous run (cancelAnimationFrame) followed by the effect
\* body for settings s: nothing is requested when numMetaballs or
\* metaballSpeed is 0, else a frame whose callback closes over s.
AnimationEffect(s) ==
    IF s.numMetaballs = 0 \/ s.metaballSpeed = 0
    THEN NoFrame
    ELSE [scheduled |-> TRUE, speed |-> s.metaballSpeed]

\* useMemo: recomputed only when a dependency differs from the last render.
Memo(next) ==
    IF AnchorDeps(next) # AnchorDeps(settings)
    THEN deriveAnchors(next)
    ELSE anchors

----------------------------------------------------------------------------
(* Operations                                                              *)

\* First render of <App />: settings = DEFAULT_SETTINGS, time = 0, the
\* effect has run once.
Init ==
    /\ settings = DEFAULT_SETTINGS
    /\ time = 0
    /\ anchors = deriveAnchors(DEFAULT_SETTINGS)
    /\ filter = renderFilterContent(DEFAULT_SETTINGS)
    /\ frameId = AnimationEffect(DEFAULT_SETTINGS)
    /\ effectStale = FALSE
    /\ isGenerating = FALSE
    /\ aiOutcome = "none"
    /\ isExporting = FALSE
    /\ rendered = TRUE

\* A widget's onChange / onClick: updateSettings({ field: v }).  The update
\* comes from a user interaction, so React renders and runs the effects
\* (those still waiting included) before the handler's task ends.
WidgetChange(field, v) ==
    LET next == updateSettings(settings, field :> v)
    IN  /\ settings' = next
        /\ anchors' = Memo(next)
        /\ filter' = renderFilterContent(next)
        /\ frameId' = IF effectStale \/ EffectDeps(next) # EffectDeps(settings)
                      THEN AnimationEffect(next)
                      ELSE frameId
        /\ effectStale' = FALSE
        /\ UNCHANGED <<time, isGenerating, aiOutcome, isExporting, rendered>>

\* The requestAnimationFrame callback: setTime(prev => prev + 0.01 *
\* settings.metaballSpeed) with the settings of the render whose effect
\* requested it, then the next frame is requested.  The Artboard renders
\* again with the same settings.
animate ==
    /\ frameId.scheduled
    /\ time + frameId.speed <= MaxTime
    /\ time + frameId.speed >= 0 - MaxTime
    /\ time' = time + frameId.speed
    /\ filter' = renderFilterContent(settings)
    /\ UNCHANGED <<settings, anchors, frameId, effectStale, isGenerating,
                   aiOutcome, isExporting, rendered>>

\* React runs the effect whose dependencies changed in a render that no
\* interaction caused: after the browser has painted.
FlushEffects ==
    /\ effectStale
    /\ frameId' = AnimationEffect(settings)
    /\ effectStale' = FALSE
    /\ UNCHANGED <<settings, time, anchors, filter, isGenerating, aiOutcome,
                   isExporting, rendered>>

\* handleAiGenerate up to its await.  The button is disabled while
\* isGenerating or while the prompt is empty.
handleAiGenerate(prompt) ==
    /\ ~isGenerating
    /\ prompt # ""
    /\ IF Trim(prompt) = ""
       THEN UNCHANGED <<isGenerating, aiOutcome>>
       ELSE /\ isGenerating' = TRUE
            /\ aiOutcome' = "none"
    /\ UNCHANGED <<settings, time, anchors, filter, frameId, effectStale,
                   isExporting, rendered>>

\* handleAiGenerate after its await: updateSettings(newStyle) and, in the
\* finally block, setIsGenerating(false).  The render is not caused by an
\* interaction, so a changed animation effect is left to FlushEffects.
AiReturn(outcome, parsed) ==
    LET newStyle == generateStyleFromPrompt(outcome, parsed)
        next == updateSettings(settings, newStyle)
    IN  /\ isGenerating
        /\ settings' = next
        /\ anchors' = Memo(next)
        /\ filter' = renderFilterContent(next)
        /\ effectStale' = (effectStale \/ EffectDeps(next) # EffectDeps(settings))
        /\ isGenerating' = FALSE
        /\ aiOutcome' = outcome
        /\ UNCHANGED <<time, frameId, isExporting, rendered>>

\* downloadPNG up to its await: setIsExporting(true).  The button is
\* disabled while isExporting.  The click is a user interaction, so the
\* Artboard renders, and a waiting effect runs, before the task ends.
downloadPNG ==
    /\ ~isExporting
    /\ isExporting' = TRUE
    /\ filter' = renderFilterContent(settings)
    /\ frameId' = IF effectStale THEN AnimationEffect(settings) ELSE frameId
    /\ effectStale' = FALSE
    /\ UNCHANGED <<settings, time, anchors, isGenerating, aiOutcome, rendered>>

\* downloadPNG after its await, toPng resolved or rejected: the finally
\* block calls setIsExporting(false) and the Artboard renders again.
ExportSettled ==
    /\ isExporting
    /\ isExporting' = FALSE
    /\ filter' = renderFilterContent(settings)
    /\ UNCHANGED <<settings, time, anchors, frameId, effectStale,
                   isGenerating, aiOutcome, rendered>>

Next ==
    \/ \E field \in UiFields : \E v \in UiValues[field] : WidgetChange(field, v)
    \/ animate
    \/ FlushEffects
    \/ \E prompt \in Prompts : handleAiGenerate(prompt)
    \/ \E outcome \in Failures : AiReturn(outcome, EmptyPatch)
    \/ \E parsed \in AiPatches : AiReturn("ok", parsed)
    \/ downloadPNG
    \/ ExportSettled

Spec == Init /\ [][Next]_vars

----------------------------------------------------------------------------
(* The settings alone: the widgets and the style service, with the clock   *)
(* and the export at rest.                                                 *)

NextSettings ==
    \/ \E field \in UiFields : \E v \in UiValues[field] : WidgetChange(field, v)
    \/ FlushEffects
    \/ \E prompt \in Prompts : handleAiGenerate(prompt)
    \/ \E outcome \in Failures : AiReturn(outcome, EmptyPatch)
    \/ \E parsed \in AiPatches : AiReturn("ok", parsed)

SpecSettings == Init /\ [][NextSettings]_vars

----------------------------------------------------------------------------
(* The filter and the anchors as functions of the settings alone: every    *)
(* ParameterSet is rendered once.                                          *)

InitCompile ==
    /\ settings \in ParameterSets
    /\ time = 0
    /\ anchors = << >>
    /\ filter = << >>
    /\ frameId = NoFrame
    /\ effectStale = FALSE
    /\ isGenerating = FALSE
    /\ aiOutcome = "none"
    /\ isExporting = FALSE
    /\ rendered = FALSE

\* The render of <Artboard settings={settings} />.
Mount ==
    /\ ~rendered
    /\ rendered' = TRUE
    /\ anchors' = deriveAnchors(settings)
    /\ filter' = renderFilterContent(settings)
    /\ frameId' = AnimationEffect(settings)
    /\ UNCHANGED <<settings, time, effectStale, isGenerating, aiOutcome,
                   isExporting>>

NextCompile == Mount

SpecCompile == InitCompile /\ [][NextCompile]_vars

----------------------------------------------------------------------------
(* The anchors over a range of counts, spreads and seeds, with the draws   *)
(* of pseudoRandom either computed or left free in [0, 1).                 *)

\* Values pseudoRandom may return, in thousandths: x - floor(x) for a
\* finite x is at least 0 and below 1.
Draws == {0, 500, 999}

AnchorSettings ==
    { [DEFAULT_SETTINGS EXCEPT !.numMetaballs = n, !.metaballSpread = sp,
                               !.noiseSeed = sd] :
        n \in 0..MaxMetaballs, sp \in {0, 40, 100}, sd \in 1..MaxSeed }

InitAnchors ==
    /\ settings \in AnchorSettings
    /\ time = 0
    /\ anchors = << >>
    /\ filter = << >>
    /\ frameId = NoFrame
    /\ effectStale = FALSE
    /\ isGenerating = FALSE
    /\ aiOutcome = "none"
    /\ isExporting = FALSE
    /\ rendered = FALSE

\* One iteration of the loop of the anchors memo, balls.push({...}), with
\* the four values of pseudoRandom left free.
PushAnchor(r1, r2, r3, r4) ==
    /\ ~rendered
    /\ Len(anchors) < settings.numMetaballs
    /\ Len(anchors) < MaxDrawn
    /\ anchors' = Append(anchors, BallOf(Len(anchors), settings.metaballSpread,
                                         r1, r2, r3, r4))
    /\ UNCHANGED <<settings, time, filter, frameId, effectStale, isGenerating,
                   aiOutcome, isExporting, rendered>>

NextAnchors ==
    \/ Mount
    \/ \E r1 \in Draws, r2 \in Draws, r3 \in Draws, r4 \in Draws :
          PushAnchor(r1, r2, r3, r4)
    \/ \E n \in 0..MaxMetaballs : rendered /\ WidgetChange("numMetaballs", n)

SpecAnchors == InitAnchors /\ [][NextAnchors]_vars

----------------------------------------------------------------------------
(* Reading a rendered filter                                               *)

\* The indices of the primitives of `stages` whose element name is op.
StagesOf(stages, op) == { i \in DOMAIN stages : stages[i].op = op }

\* The indices of the primitives of `stages` whose result is named `name`.
Producers(stages, name) == { i \in DOMAIN stages : stages[i].result = name }

\* The buffers a primitive reads, as a set.
Reads(stage) == { stage.ins[j] : j \in DOMAIN stage.ins }

\* The primitives that follow the one producing gooShape.
MaterialTail(stages) ==
    LET g == CHOOSE i \in Producers(stages, "gooShape") : TRUE
    IN  SubSeq(stages, g + 1, Len(stages))

\* The mandatory primitives, in the order they were emitted.
IsMandatory(stage) ==
    stage.result \in {"noise", "distorted", "blurred", "gooShape"}

Mandatory(stages) == SelectSeq(stages, IsMandatory)

----------------------------------------------------------------------------
(* Claims about the filter graph                                           *)

\* C1: the filter contains a morphology primitive exactly when
\* morphRadius > 0.  At radius 0 there is none and the displacement reads
\* the raw shape; at a positive radius it is the first primitive, carries
\* morphOperator and morphRadius, writes "morphed", and the displacement
\* reads "morphed".
C1_MorphologyIffPositiveRadius ==
    rendered =>
        LET morph == StagesOf(filter, "feMorphology")
            disp == StagesOf(filter, "feDisplacementMap")
        IN  /\ (morph # {}) <=> (settings.morphRadius > 0)
            /\ disp # {}
            /\ settings.morphRadius = 0 =>
                   \A d \in disp : filter[d].ins[1] = RawShape
            /\ settings.morphRadius > 0 =>
                   /\ morph = {1}
                   /\ filter[1].ins = <<RawShape>>
                   /\ filter[1].result = "morphed"
                   /\ filter[1].attrs.operator = settings.morphOperator
                   /\ filter[1].attrs.radius = settings.morphRadius
                   /\ \A d \in disp : filter[d].ins[1] = "morphed"

C1_Witness ==
    /\ rendered
    /\ settings.morphRadius > 0
    /\ settings.morphOperator = "erode"
    /\ filter[1].op = "feMorphology"

\* C2: whatever the settings, the filter holds the four mandatory
\* primitives noise -> displacement -> blur -> contrast remap, in that
\* order, named noise, distorted, blurred, gooShape; the displacement reads
\* noise second, the blur reads distorted, the remap reads blurred.
C2_MandatoryStages ==
    rendered =>
        LET m == Mandatory(filter)
        IN  /\ Len(m) = 4
            /\ [i \in 1..4 |-> m[i].op] =
                   <<"feTurbulence", "feDisplacementMap", "feGaussianBlur",
                     "feColorMatrix">>
            /\ [i \in 1..4 |-> m[i].result] =
                   <<"noise", "distorted", "blurred", "gooShape">>
            /\ Len(m[2].ins) = 2 /\ m[2].ins[2] = "noise"
            /\ m[3].ins = <<"distorted">>
            /\ m[3].attrs.stdDeviation = settings.blurStdDev
            /\ m[4].ins = <<"blurred">>

C2_Witness ==
    /\ rendered
    /\ settings.blurStdDev = 0
    /\ settings.morphRadius < 0
    /\ settings.textureMode \notin TextureModes
    /\ Len(filter) = 4

\* C3: exactly one of the four material branches follows gooShape in the
\* rendered filter, in every state reached by widget changes and applied
\* style-suggestion patches.
C3_ExactlyOneMaterialBranch ==
    Cardinality({ b \in {SolidBranch, ChromeBranch, GlassBranch, NeonBranch} :
                    MaterialTail(filter) = b }) = 1

\* C4 as claimed: with numMetaballs = 0, morphRadius = 0, textureMode =
\* 'solid' and blurStdDev = 0 the filter has exactly the 4 mandatory
\* primitives and no circle is drawn.
ScenarioA ==
    /\ rendered
    /\ settings.numMetaballs = 0
    /\ settings.morphRadius = 0
    /\ settings.textureMode = "solid"
    /\ settings.blurStdDev = 0

C4_FourStages ==
    ScenarioA =>
        /\ Len(filter) = 4
        /\ Mandatory(filter) = filter
        /\ Circles(anchors, time) = << >>

\* C4 as amended: in that scenario the filter has exactly 5 primitives, the
\* four mandatory ones followed by a merge of the single input gooShape
\* (which hands gooShape on unchanged as the result), and no circle is
\* drawn.
C4_FourStagesAndPassThroughMerge ==
    ScenarioA =>
        /\ Len(filter) = 5
        /\ Mandatory(filter) = SubSeq(filter, 1, 4)
        /\ filter[5].op = "feMerge"
        /\ filter[5].ins = <<"gooShape">>
        /\ filter[5].result = ""
        /\ Circles(anchors, time) = << >>

C4_Witness ==
    /\ ScenarioA
    /\ settings.contrast = 20
    /\ Len(filter) = 5

\* C5: in neon mode the filter ends with its only merge, whose five inputs
\* are glow3, glow2, glow1, gooShape, gooShape in this order; glow1, glow2
\* and glow3 are blurs of gooShape emitted before it, of strictly
\* increasing radius.
C5_NeonMerge ==
    (rendered /\ settings.textureMode = "neon") =>
        LET n == Len(filter)
            Glow(name) == filter[CHOOSE i \in Producers(filter, name) : TRUE]
        IN  /\ StagesOf(filter, "feMerge") = {n}
            /\ filter[n].ins =
                   <<"glow3", "glow2", "glow1", "gooShape", "gooShape">>
            /\ \A name \in {"glow1", "glow2", "glow3"} :
                   /\ Cardinality(Producers(filter, name)) = 1
                   /\ Glow(name).op = "feGaussianBlur"
                   /\ Glow(name).ins = <<"gooShape">>
            /\ Glow("glow1").attrs.stdDeviation < Glow("glow2").attrs.stdDeviation
            /\ Glow("glow2").attrs.stdDeviation < Glow("glow3").attrs.stdDeviation

C5_Witness ==
    /\ rendered
    /\ settings.textureMode = "neon"
    /\ settings.morphRadius > 0
    /\ filter[Len(filter)].op = "feMerge"

\* C6: every buffer a primitive reads is the raw shape or the result of a
\* primitive emitted strictly earlier; no result name is produced twice;
\* every primitive but the last has a named result that a later primitive
\* reads, so only the last one's output is left as the composite result.
C6_NoDanglingReference ==
    rendered =>
        /\ \A i \in DOMAIN filter : \A name \in Reads(filter[i]) :
               \/ name = RawShape
               \/ \E k \in 1..(i - 1) : filter[k].result = name
        /\ \A i, j \in DOMAIN filter :
               (i # j /\ filter[i].result # "") =>
                   filter[i].result # filter[j].result
        /\ \A i \in 1..(Len(filter) - 1) :
               /\ filter[i].result # ""
               /\ \E k \in (i + 1)..Len(filter) :
                      filter[i].result \in Reads(filter[k])
        /\ Len(filter) > 0

C6_Witness ==
    /\ rendered
    /\ settings.morphRadius = 0
    /\ settings.textureMode = "glass"
    /\ Len(filter) = 9

----------------------------------------------------------------------------
(* Claims about the animation clock                                        *)

Stopped(s) == s.numMetaballs = 0 \/ s.metaballSpeed = 0

\* C7: a step that leaves numMetaballs = 0 or metaballSpeed = 0 leaves no
\* animation frame scheduled (the frame requested before is cancelled at
\* once), and no step taken while either is 0 advances the clock.
C7_NoWorkWhileStopped ==
    [][/\ Stopped(settings') => ~frameId'.scheduled
       /\ Stopped(settings) => time' = time]_vars

\* C8 as claimed: with metaballSpeed = 0 every circle is drawn exactly at
\* its anchor's base position.
C8_ExactBasePosition ==
    settings.metaballSpeed = 0 =>
        \A k \in DOMAIN anchors :
            /\ AnimX(anchors[k], time) = anchors[k].baseX
            /\ AnimY(anchors[k], time) = anchors[k].baseY

Abs(x) == IF x < 0 THEN 0 - x ELSE x

\* C8 as amended: with metaballSpeed = 0, after any number of refresh
\* ticks, every circle is drawn within 5 units of its anchor's base
\* position on each axis, at baseX + 5 sin(time * speed + phase) and
\* baseY + 5 cos(time * speed + phase); it is on the orbit around the base
\* position, not at it.
C8_WithinJitterOfBase ==
    settings.metaballSpeed = 0 =>
        LET circles == Circles(anchors, time)
        IN  \A k \in DOMAIN anchors :
                /\ Abs(circles[k].cx - anchors[k].baseX) <= 5000
                /\ Abs(circles[k].cy - anchors[k].baseY) <= 5000
                /\ <<circles[k].cx, circles[k].cy>> #
                       <<anchors[k].baseX, anchors[k].baseY>>

C8_Witness ==
    /\ settings.metaballSpeed = 0
    /\ time > 0
    /\ Len(anchors) = 5
    /\ \E k \in DOMAIN anchors :
           Abs(AnimX(anchors[k], time) - anchors[k].baseX) > 4000

----------------------------------------------------------------------------
(* Claims about the style service                                          *)

\* The step in which handleAiGenerate resumes after its await.
AiReturned == isGenerating /\ ~isGenerating'

\* C9: when the style request fails (no API key, request error, empty
\* response, malformed JSON) the settings after handleAiGenerate equal the
\* settings before it resumed.
C9_FailureLeavesSettings ==
    [][(AiReturned /\ aiOutcome' \in Failures) => settings' = settings]_vars

C9_Witness ==
    /\ aiOutcome = "malformed"
    /\ ~isGenerating
    /\ settings # DEFAULT_SETTINGS

\* C10: applying a style-suggestion patch changes no field outside the
\* schema: text, noiseSeed and every key that is no schema field keep
\* their value (or stay absent).
C10_PatchWithinSchema ==
    [][AiReturned =>
          \A k \in (DOMAIN settings') \ SchemaFields :
              k \in DOMAIN settings /\ settings'[k] = settings[k]]_vars

----------------------------------------------------------------------------
(* Claims about validation                                                 *)

\* The ranges the filter and the anchors are specified for.
InValidatedRanges(s) ==
    /\ s.morphRadius >= 0
    /\ s.distortionX >= 0 /\ s.distortionY >= 0
    /\ s.distortionStrength >= 0
    /\ s.blurStdDev >= 0
    /\ s.contrast >= 1
    /\ s.numMetaballs >= 0
    /\ s.metaballSpread >= 0
    /\ s.metaballSpeed >= 0
    /\ s.morphOperator \in MorphOperators
    /\ s.noiseType \in NoiseTypes
    /\ s.textureMode \in TextureModes

\* C11: the settings the filter and the anchors are built from are always
\* within their validated ranges; a value out of range, whatever its
\* source, is clamped or rejected before it is stored.
C11_SettingsWithinRanges ==
    InValidatedRanges(settings)

----------------------------------------------------------------------------
(* Claims about the anchors                                                *)

InAnchorRanges(ball, spread) ==
    /\ ball.baseX >= 50000 - 500 * spread /\ ball.baseX <= 50000 + 500 * spread
    /\ ball.baseY >= 50000 - 500 * spread /\ ball.baseY <= 50000 + 500 * spread
    /\ ball.r >= 20000 /\ ball.r <= 80000
    /\ ball.phase >= 0 /\ ball.phase < TwoPiMilli
    /\ ball.speed >= 500 /\ ball.speed <= 1000

ScenarioC ==
    /\ settings.numMetaballs = 5
    /\ settings.metaballSpread = 40
    /\ settings.noiseSeed = 1

\* C13: whatever the count, the spread (>= 0) and the seed, and whatever
\* values in [0, 1) the draws take, every anchor has baseX and baseY within
\* spread/2 of 50, a radius in [20, 80], a phase in [0, 2*pi) and a speed
\* multiplier in [0.5, 1.0]; 5 balls, spread 40, seed 1 give exactly 5
\* anchors with baseX and baseY in [30, 70].
C13_AnchorRanges ==
    /\ \A k \in DOMAIN anchors :
          InAnchorRanges(anchors[k], settings.metaballSpread)
    /\ (rendered /\ ScenarioC) =>
          /\ Len(anchors) = 5
          /\ \A k \in 1..5 :
                /\ anchors[k].baseX \in 30000..70000
                /\ anchors[k].baseY \in 30000..70000

C13_Witness ==
    /\ ~rendered
    /\ settings.metaballSpread = 40
    /\ Len(anchors) = 1
    /\ anchors[1].baseX = 69960
    /\ anchors[1].baseY = 30000
    /\ anchors[1].r = 79940

\* C16: for a fixed spread and seed the anchors of n balls are the first n
\* anchors of n + 1 balls, and a change of the count keeps every anchor
\* whose index exists before and after it.
C16_CountKeepsPrefix ==
    [][rendered =>
         /\ anchors = SubSeq(deriveAnchors([settings EXCEPT
                                               !.numMetaballs = @ + 1]),
                             1, settings.numMetaballs)
         /\ \A k \in DOMAIN anchors \cap DOMAIN anchors' :
               anchors'[k] = anchors[k]
         /\ Len(anchors') = settings'.numMetaballs]_vars

C16_Witness ==
    /\ rendered
    /\ settings.numMetaballs = 3
    /\ Len(anchors) = 3
    /\ anchors[3].id = 2

----------------------------------------------------------------------------
(* Claims about the running application                                    *)

\* C14: the stage sequence on screen is a function of the current settings
\* alone: after every step it is the one rendered from the settings of that
\* moment, and a step that leaves the settings as they are (a clock tick,
\* the start or end of a style request or of an export) leaves the stage
\* sequence as it is, whatever the settings were before.
C14_FilterFromSettingsAlone ==
    [][/\ filter' = renderFilterContent(settings')
       /\ settings' = settings => filter' = filter]_vars

C14_Witness ==
    /\ time # 0
    /\ isExporting
    /\ isGenerating
    /\ settings.textureMode = "chrome"
    /\ settings.noiseSeed = 2
    /\ filter = renderFilterContent(settings)

\* C15: the clock never decreases; while numMetaballs and metaballSpeed are
\* both non-zero a frame callback is pending; and every tick adds the
\* current metaballSpeed (times 0.01) to the clock, so that no settings
\* update resets or lowers it.
C15_ClockMonotone ==
    [][/\ time' >= time
       /\ ~Stopped(settings') => frameId'.scheduled
       /\ time' # time => time' = time + settings.metaballSpeed]_vars

\* A merge of patch onto the settings of the moment: the fields of the
\* patch take its values, every other field keeps its own.
MergedOntoLatest(patch) ==
    /\ DOMAIN settings' = DOMAIN settings \cup DOMAIN patch
    /\ \A k \in DOMAIN patch : settings'[k] = patch[k]
    /\ \A k \in DOMAIN settings \ DOMAIN patch : settings'[k] = settings[k]

\* C17: an update of the settings changes exactly the fields of its patch:
\* a widget's single field, or the fields of a style suggestion, which is
\* merged when it arrives onto the settings of that moment, so the edits
\* made while the request was pending stay in every field the suggestion
\* does not carry; a failed request changes nothing.
C17_MergeKeepsOtherFields ==
    [][/\ \A field \in UiFields : \A v \in UiValues[field] :
             WidgetChange(field, v) => MergedOntoLatest(field :> v)
       /\ \A parsed \in AiPatches :
             AiReturn("ok", parsed) => MergedOntoLatest(parsed)
       /\ \A outcome \in Failures :
             AiReturn(outcome, EmptyPatch) => settings' = settings]_vars

C17_Witness ==
    /\ aiOutcome = "ok"
    /\ ~isGenerating
    /\ settings.textureMode = "plasma"
    /\ settings.text = "GOO"
    /\ settings.metaballSpread = 0
    /\ settings.numMetaballs = 5

====
